---- MODULE Spec2Model ----
(***************************************************************************)
(* Model of the tool-calling evaluation harness:                           *)
(*   - src/langraph/orchestrator.py: the ten-stage LangGraph workflow,     *)
(*     its PipelineState and the process-wide memoised compiled graph;     *)
(*   - src/deepeval_utils/local_metrics.py: the two deterministic scorers  *)
(*     (tool selection, step efficiency).                                  *)
(*   - src/deepeval/evaluate_tool_calling.py: how main() builds the        *)
(*     tools_called list and the trace that the scorers are given.         *)
(*                                                                         *)
(* Python values are represented as follows.                               *)
(*   str            a TLA+ string                                          *)
(*   list           a sequence                                             *)
(*   set            a set                                                  *)
(*   None / absent  for a tool name: the string NoneName (no tool is named *)
(*                  so); for an Optional list or dict: a record with a     *)
(*                  flag, see NoList and NoContext                         *)
(*   float score    1.0 is the integer 1, 0.0 is the integer 0             *)
(*   f"..{x}.."     the tuple of the literal part and the formatted value  *)
(***************************************************************************)
EXTENDS Integers, Sequences, FiniteSets, TLC

VARIABLES
    \* ---- src/langraph/orchestrator.py ----
    _COMPILED_GRAPH,   \* the module global of line 205
    threads,           \* per thread: position in run_langraph_pipeline and its locals
    results,           \* payloads returned so far, with the arguments of the call
    buildCount,        \* number of executions of _build_graph in this process
    runCount,          \* number of invocations of run_langraph_pipeline started
    \* ---- src/deepeval_utils/local_metrics.py ----
    effIn,             \* input of LocalStepEfficiencyMetric._score_trace
    effOut,            \* its ToolSelectionScore
    selIn,             \* input of LocalToolCorrectnessMetric._compute_selection_score
    selOut,            \* its ToolSelectionScore
    \* ---- src/langraph/orchestrator.py, main ----
    cli,               \* position of main(), its request, the two streams, the exit status
    pending,           \* per thread: the exception propagating out of run_langraph_pipeline
    \* ---- src/deepeval/evaluate_tool_calling.py ----
    ev                 \* one scenario of main(): agent output, tools_called, trace, scores

vars == <<_COMPILED_GRAPH, threads, results, buildCount, runCount,
          effIn, effOut, selIn, selOut, cli, pending, ev>>

wfVars == <<_COMPILED_GRAPH, threads, results, buildCount, runCount>>
effVars == <<effIn, effOut>>
selVars == <<selIn, selOut>>
cliVars == <<cli, pending>>
evVars == <<ev>>

\* ------------------------------------------------------------------ bounds

\* Threads of the process that may call run_langraph_pipeline.
NumThreads == 2
\* Invocations of run_langraph_pipeline per process run.
MaxRuns == 3
\* Longest list of child spans of a trace and longest expected sequence
\* given to the step-efficiency scorer.
MaxChildren == 3
MaxExpectedSteps == 3
\* Longest tools_called, expected_tools and available_tools lists given to
\* the tool-selection scorer.
MaxCalled == 3
MaxExpectedTools == 2
MaxCatalogue == 2
\* Longest toolCalls list in an agent's output.
MaxToolCalls == 3

Threads == 1..NumThreads
\* The thread of main(), the only caller when the module runs as a script.
MainThread == CHOOSE t \in Threads : \A u \in Threads : t <= u

\* ------------------------------------------------------------ generic helpers

Range(s) == {s[i] : i \in 1..Len(s)}

IsPrefix(s, t) == Len(s) <= Len(t) /\ SubSeq(t, 1, Len(s)) = s

SeqsUpTo(S, n) == UNION {[1..k -> S] : k \in 0..n}

\* ------------------------------------------------- orchestrator: PipelineState

\* Arguments of run_langraph_pipeline.  The context argument is Optional.
Prompts == {"prompt A", "prompt B"}
NoContext == [isNone |-> TRUE, dict |-> {}]
Contexts == {NoContext, [isNone |-> FALSE, dict |-> {<<"scenario", "s1">>}]}

\* Variant: the list defaults are one object shared by every instance, so a
\* new state starts with what the last returned run left in them.
PipelineState_shared_defaults(prompt, context) ==
    LET last == IF results = {} THEN <<>>
                ELSE (CHOOSE r \in results : \A q \in results :
                          Len(q.payload.artifacts) <= Len(r.payload.artifacts)).payload
    IN  [prompt |-> prompt,
         artifacts |-> IF results = {} THEN <<>> ELSE last.artifacts,
         tools_planned |-> IF results = {} THEN <<>> ELSE last.plan,
         context |-> context,
         step |-> 0]

\* PipelineState(prompt=prompt, context=...): the other fields take their
\* default_factory values, a new empty list per instance, and step = 0.
PipelineState(prompt, context) ==
    [prompt |-> prompt,
     artifacts |-> <<>>,
     tools_planned |-> <<>>,
     context |-> context,
     step |-> 0]

\* Variant: the plan is rebound to a new one-entry list.
append_tool_rebinding(state, name, parameters) ==
    [state EXCEPT !.tools_planned = <<[tool |-> name, parameters |-> parameters]>>]

append_tool(state, name, parameters) ==
    [state EXCEPT !.tools_planned = Append(@, [tool |-> name, parameters |-> parameters])]

add_artifact(state, description) ==
    [state EXCEPT !.artifacts = Append(@, description)]

\* Path("./x").as_posix(): pathlib drops the leading "./" component.
raw_path == "tmp_pipeline_raw.txt"
metadata_path == "tmp_pipeline_metadata.json"
summary_path == "tmp_pipeline_summary.txt"
rag_path == "tmp_pipeline_rag.txt"
report_path == "tmp_pipeline_report.md"

\* ------------------------------------------------------ orchestrator: stages

_dataset_stage(state) ==
    LET s1 == append_tool(state, "filesystem",
                  [action |-> "write", path |-> raw_path, content |-> "dataset=12,7,23"])
        s2 == add_artifact(s1, <<"raw dataset written to ", raw_path>>)
    IN  [s2 EXCEPT !.step = @ + 1]

_metadata_stage(state) ==
    LET s1 == append_tool(state, "filesystem",
                  [action |-> "write", path |-> metadata_path,
                   content |-> "{\"source\": \"synthetic\", \"fields\": 3}"])
        s2 == add_artifact(s1, <<"metadata stored at ", metadata_path>>)
    IN  [s2 EXCEPT !.step = @ + 1]

_verify_raw_stage(state) ==
    LET s1 == append_tool(state, "filesystem", [action |-> "read", path |-> raw_path])
        s2 == add_artifact(s1, <<"raw dataset verified from ", raw_path>>)
    IN  [s2 EXCEPT !.step = @ + 1]

_verify_metadata_stage(state) ==
    LET s1 == append_tool(state, "filesystem", [action |-> "read", path |-> metadata_path])
        s2 == add_artifact(s1, <<"metadata verified from ", metadata_path>>)
    IN  [s2 EXCEPT !.step = @ + 1]

_summary_stage(state) ==
    LET s1 == append_tool(state, "filesystem",
                  [action |-> "write", path |-> summary_path,
                   content |-> "Summary: collected 3 synthetic observations."])
        s2 == add_artifact(s1, <<"summary stored at ", summary_path>>)
    IN  [s2 EXCEPT !.step = @ + 1]

\* Variant: the stage forgets to count itself.
_rag_stage_uncounted(state) ==
    LET s1 == append_tool(state, "rag",
                  [query |-> "evaluation playbooks and best practices"])
    IN  add_artifact(s1, <<"rag query executed for evaluation playbooks">>)

_rag_stage(state) ==
    LET s1 == append_tool(state, "rag",
                  [query |-> "evaluation playbooks and best practices"])
        s2 == add_artifact(s1, <<"rag query executed for evaluation playbooks">>)
    IN  [s2 EXCEPT !.step = @ + 1]

_rag_capture_stage(state) ==
    LET s1 == append_tool(state, "filesystem",
                  [action |-> "write", path |-> rag_path,
                   content |-> "RAG insights: Follow the evaluation playbook to validate every artifact."])
        s2 == add_artifact(s1, <<"rag insights captured at ", rag_path>>)
    IN  [s2 EXCEPT !.step = @ + 1]

_rag_verify_stage(state) ==
    LET s1 == append_tool(state, "filesystem", [action |-> "read", path |-> rag_path])
        s2 == add_artifact(s1, <<"rag insights verified from ", rag_path>>)
    IN  [s2 EXCEPT !.step = @ + 1]

_report_stage(state) ==
    LET s1 == append_tool(state, "filesystem",
                  [action |-> "write", path |-> report_path,
                   content |-> "# Evaluation Report\n\n- Raw data stored\n- Metadata verified\n- RAG insights appended"])
        s2 == add_artifact(s1, <<"report drafted at ", report_path>>)
    IN  [s2 EXCEPT !.step = @ + 1]

_final_stage(state) ==
    LET s1 == append_tool(state, "filesystem", [action |-> "list", path |-> "."])
        s2 == add_artifact(s1, <<"workspace inventory captured">>)
    IN  [s2 EXCEPT !.step = @ + 1]

\* ------------------------------------------------------- orchestrator: graph

START == "__start__"
END == "__end__"

\* graph.add_node(name, fn), ten times: a node name and its stage function.
graph_nodes ==
    [n \in {"dataset", "metadata", "verify_raw", "verify_metadata",
            "summary", "rag_query", "rag_capture", "rag_verify",
            "report", "final"} |->
        CASE n = "dataset" -> "_dataset_stage"
          [] n = "metadata" -> "_metadata_stage"
          [] n = "verify_raw" -> "_verify_raw_stage"
          [] n = "verify_metadata" -> "_verify_metadata_stage"
          [] n = "summary" -> "_summary_stage"
          [] n = "rag_query" -> "_rag_stage"
          [] n = "rag_capture" -> "_rag_capture_stage"
          [] n = "rag_verify" -> "_rag_verify_stage"
          [] n = "report" -> "_report_stage"
          [] n = "final" -> "_final_stage"]

\* Variant: the edge out of verify_raw leads to summary, and verify_metadata
\* is wired after report.
_build_graph_miswired ==
    [nodes |-> graph_nodes,
     edges |-> {<<START, "dataset">>,
                <<"dataset", "metadata">>,
                <<"metadata", "verify_raw">>,
                <<"verify_raw", "summary">>,
                <<"summary", "rag_query">>,
                <<"rag_query", "rag_capture">>,
                <<"rag_capture", "rag_verify">>,
                <<"rag_verify", "report">>,
                <<"report", "verify_metadata">>,
                <<"verify_metadata", "final">>,
                <<"final", END>>}]

\* set_entry_point, the nine add_edge calls, set_finish_point and compile().
_build_graph ==
    [nodes |-> graph_nodes,
     edges |-> {<<START, "dataset">>,
                <<"dataset", "metadata">>,
                <<"metadata", "verify_raw">>,
                <<"verify_raw", "verify_metadata">>,
                <<"verify_metadata", "summary">>,
                <<"summary", "rag_query">>,
                <<"rag_query", "rag_capture">>,
                <<"rag_capture", "rag_verify">>,
                <<"rag_verify", "report">>,
                <<"report", "final">>,
                <<"final", END>>}]

\* Calling the stage function a node was registered with.
CallStage(fn, state) ==
    CASE fn = "_dataset_stage" -> _dataset_stage(state)
      [] fn = "_metadata_stage" -> _metadata_stage(state)
      [] fn = "_verify_raw_stage" -> _verify_raw_stage(state)
      [] fn = "_verify_metadata_stage" -> _verify_metadata_stage(state)
      [] fn = "_summary_stage" -> _summary_stage(state)
      [] fn = "_rag_stage" -> _rag_stage(state)
      [] fn = "_rag_capture_stage" -> _rag_capture_stage(state)
      [] fn = "_rag_verify_stage" -> _rag_verify_stage(state)
      [] fn = "_report_stage" -> _report_stage(state)
      [] fn = "_final_stage" -> _final_stage(state)

\* The nodes an edge of the graph leads to from node n.
Successors(graph, n) == {e[2] : e \in {d \in graph.edges : d[1] = n}}

\* _COMPILED_GRAPH = None
NoGraph == [id |-> 0, nodes |-> <<>>, edges |-> {}]

\* ---------------------------------------------- orchestrator: the process

\* The local initial_state before line 215 binds it.
NoState ==
    [prompt |-> "", artifacts |-> <<>>, tools_planned |-> <<>>,
     context |-> NoContext, step |-> 0]

\* A thread outside run_langraph_pipeline.
IdleThread ==
    [pc |-> "idle",
     prompt |-> "",
     context |-> NoContext,
     built |-> NoGraph,
     graph |-> NoGraph,
     state |-> NoState,
     active |-> {},
     executed |-> <<>>]

InitWorkflow ==
    /\ _COMPILED_GRAPH = NoGraph
    /\ threads = [t \in Threads |-> IdleThread]
    /\ results = {}
    /\ buildCount = 0
    /\ runCount = 0

\* A caller enters run_langraph_pipeline(prompt, context).
Call(t) ==
    /\ threads[t].pc = "idle"
    /\ runCount < MaxRuns
    /\ \E p \in Prompts, c \in Contexts :
          threads' = [threads EXCEPT ![t] =
                         [IdleThread EXCEPT !.pc = "check", !.prompt = p, !.context = c]]
    /\ runCount' = runCount + 1
    /\ UNCHANGED <<effVars, selVars, cliVars, evVars, _COMPILED_GRAPH, results, buildCount>>

\* Line 212: if _COMPILED_GRAPH is None
CheckGraph(t) ==
    /\ threads[t].pc = "check"
    /\ threads' = [threads EXCEPT ![t].pc =
                      IF _COMPILED_GRAPH = NoGraph THEN "build" ELSE "invoke"]
    /\ UNCHANGED <<effVars, selVars, cliVars, evVars, _COMPILED_GRAPH, results, buildCount, runCount>>

\* Line 213, right-hand side: the call of _build_graph().
BuildGraph(t) ==
    /\ threads[t].pc = "build"
    /\ buildCount' = buildCount + 1
    /\ threads' = [threads EXCEPT ![t].pc = "store",
                                  ![t].built = [id |-> buildCount + 1,
                                                nodes |-> _build_graph.nodes,
                                                edges |-> _build_graph.edges]]
    /\ UNCHANGED <<effVars, selVars, cliVars, evVars, _COMPILED_GRAPH, results, runCount>>

\* Line 213, the assignment to the global.
StoreGraph(t) ==
    /\ threads[t].pc = "store"
    /\ _COMPILED_GRAPH' = threads[t].built
    /\ threads' = [threads EXCEPT ![t].pc = "invoke"]
    /\ UNCHANGED <<effVars, selVars, cliVars, evVars, results, buildCount, runCount>>

\* Lines 215-219: the fresh PipelineState, the read of the global and the
\* start of invoke at the graph's entry point.
StartInvoke(t) ==
    /\ threads[t].pc = "invoke"
    /\ threads' = [threads EXCEPT
          ![t].pc = "running",
          ![t].graph = _COMPILED_GRAPH,
          ![t].state = PipelineState(threads[t].prompt,
                           IF threads[t].context.isNone
                           THEN [isNone |-> FALSE, dict |-> {}]
                           ELSE threads[t].context),
          ![t].active = Successors(_COMPILED_GRAPH, START)]
    /\ UNCHANGED <<effVars, selVars, cliVars, evVars, _COMPILED_GRAPH, results, buildCount, runCount>>

\* Line 219, invoke: one node of the graph runs its stage function on the
\* state, and the nodes its edges lead to become active.
RunStage(t) ==
    /\ threads[t].pc = "running"
    /\ \E n \in threads[t].active :
          LET g == threads[t].graph
              next == (threads[t].active \ {n}) \cup (Successors(g, n) \ {END})
          IN  threads' = [threads EXCEPT
                 ![t].state = CallStage(g.nodes[n], @),
                 ![t].executed = Append(@, n),
                 ![t].active = next,
                 ![t].pc = IF next = {} THEN "collect" ELSE "running"]
    /\ UNCHANGED <<effVars, selVars, cliVars, evVars, _COMPILED_GRAPH, results, buildCount, runCount>>

\* Lines 221-235: the payload of the final state is returned.
Return(t) ==
    /\ threads[t].pc = "collect"
    /\ results' = results \cup
          {[prompt |-> threads[t].prompt,
            context |-> threads[t].context,
            payload |-> [prompt |-> threads[t].prompt,
                         artifacts |-> threads[t].state.artifacts,
                         plan |-> threads[t].state.tools_planned]]}
    /\ threads' = [threads EXCEPT ![t] = IdleThread]
    /\ UNCHANGED <<effVars, selVars, cliVars, evVars, _COMPILED_GRAPH, buildCount, runCount>>

\* ------------------------------------------------ orchestrator: failures

\* No exception is propagating.
NoException == [origin |-> "none", stage |-> "", msg |-> ""]

\* The exceptions a stage function may raise (subclasses of Exception).
StageErrors == {"RuntimeError: stage failed", "OSError: invalid path"}

\* Variant: invoke is wrapped in a handler that keeps what the completed
\* stages planned and lets the run return it.
StageRaises_partial_result(t) ==
    /\ threads[t].pc = "running"
    /\ \E n \in threads[t].active : \E e \in StageErrors :
          pending' = [pending EXCEPT ![t] = [origin |-> "stage", stage |-> n, msg |-> e]]
    /\ threads' = [threads EXCEPT ![t].pc = "collect"]
    /\ UNCHANGED <<effVars, selVars, evVars, cli, _COMPILED_GRAPH, results,
                   buildCount, runCount>>

\* Line 219: the stage function of an active node raises.  invoke and
\* run_langraph_pipeline have no handler, so the exception leaves both and
\* the PipelineState of the run is dropped with the frame.
StageRaises(t) ==
    /\ threads[t].pc = "running"
    /\ \E n \in threads[t].active : \E e \in StageErrors :
          pending' = [pending EXCEPT ![t] = [origin |-> "stage", stage |-> n, msg |-> e]]
    /\ threads' = [threads EXCEPT ![t].pc = "raised"]
    /\ UNCHANGED <<effVars, selVars, evVars, cli, _COMPILED_GRAPH, results,
                   buildCount, runCount>>

\* ------------------------------------------------------ orchestrator: main

\* json.dumps(x): the text of x, kept as a tagged value.
json_dumps(x) == <<"json", x>>

\* What main may read from standard input: text that is not JSON, JSON that
\* is not an object, and request objects with or without their two keys.
Absent == [given |-> FALSE, value |-> ""]
Given(v) == [given |-> TRUE, value |-> v]
StdinInputs ==
    {[kind |-> "malformed", prompt |-> Absent, context |-> Absent],
     [kind |-> "array", prompt |-> Absent, context |-> Absent]}
    \cup [kind : {"object"},
          prompt : {Absent} \cup {Given(p) : p \in Prompts},
          context : {Absent} \cup {Given(c) : c \in Contexts}]

\* main() not running: the module is imported, not run as a script.
IdleCli ==
    /\ cli = [pc |-> "idle", request |-> [kind |-> "none", prompt |-> Absent, context |-> Absent],
              stdout |-> <<>>, stderr |-> <<>>, status |-> -1]
    /\ pending = [t \in Threads |-> NoException]

\* main() entered.
InitCli ==
    /\ cli = [pc |-> "start", request |-> [kind |-> "none", prompt |-> Absent, context |-> Absent],
              stdout |-> <<>>, stderr |-> <<>>, status |-> -1]
    /\ pending = [t \in Threads |-> NoException]

\* Lines 243-244: sys.stdin.read() and json.loads.
MainRead ==
    /\ cli.pc = "start"
    /\ \E input \in StdinInputs :
          IF input.kind = "malformed"
          THEN /\ cli' = [cli EXCEPT !.pc = "except"]
               /\ pending' = [pending EXCEPT ![MainThread] =
                                 [origin |-> "json.loads", stage |-> "",
                                  msg |-> "JSONDecodeError: Expecting value"]]
          ELSE /\ cli' = [cli EXCEPT !.pc = "parsed", !.request = input]
               /\ UNCHANGED pending
    /\ UNCHANGED <<effVars, selVars, evVars, wfVars>>

\* Lines 246-249: request.get("prompt", ""), request.get("context", {}) and
\* the call of run_langraph_pipeline.  A request that is no object has no get.
MainCall ==
    /\ cli.pc = "parsed"
    /\ IF cli.request.kind # "object"
       THEN /\ cli' = [cli EXCEPT !.pc = "except"]
            /\ pending' = [pending EXCEPT ![MainThread] =
                              [origin |-> "request.get", stage |-> "",
                               msg |-> "AttributeError: 'list' object has no attribute 'get'"]]
            /\ UNCHANGED wfVars
       ELSE /\ cli' = [cli EXCEPT !.pc = "called"]
            /\ threads' = [threads EXCEPT ![MainThread] =
                  [IdleThread EXCEPT
                      !.pc = "check",
                      !.prompt = IF cli.request.prompt.given
                                 THEN cli.request.prompt.value ELSE "",
                      !.context = IF cli.request.context.given
                                  THEN cli.request.context.value
                                  ELSE [isNone |-> FALSE, dict |-> {}]]]
            /\ runCount' = runCount + 1
            /\ UNCHANGED <<pending, _COMPILED_GRAPH, results, buildCount>>
    /\ UNCHANGED <<effVars, selVars, evVars>>

\* Line 250: print(result), then main returns and the script ends with status 0.
MainPrint ==
    /\ cli.pc = "called"
    /\ threads[MainThread].pc = "idle"
    /\ \E r \in results :
          cli' = [cli EXCEPT !.pc = "exited",
                             !.stdout = Append(@, json_dumps(r.payload)),
                             !.status = 0]
    /\ UNCHANGED <<effVars, selVars, evVars, wfVars, pending>>

\* Lines 251-254: except Exception: the error object goes to standard error
\* and sys.exit(1) ends the script.
MainExcept ==
    /\ \/ cli.pc = "except"
       \/ cli.pc = "called" /\ threads[MainThread].pc = "raised"
    /\ cli' = [cli EXCEPT !.pc = "exited",
                          !.stderr = Append(@, json_dumps([error |-> pending[MainThread].msg])),
                          !.status = 1]
    /\ threads' = [threads EXCEPT ![MainThread] = IdleThread]
    /\ UNCHANGED <<effVars, selVars, evVars, pending, _COMPILED_GRAPH, results,
                   buildCount, runCount>>

\* ------------------------------------------------ local_metrics: helpers

\* A missing name: child.get("name") of a span without the key, or a null.
NoneName == "<None>"

\* ToolSelectionScore(score=..., reason=...).  The reason is kept as its
\* fixed text and the details formatted into it.
ToolSelectionScore(score, text, details) ==
    [outcome |-> "returned", score |-> score, text |-> text, details |-> details]

\* An exception leaving the scorer.
Raised(exc) == [outcome |-> "raised", score |-> -1, text |-> exc, details |-> <<>>]

NotScored == [outcome |-> "none", score |-> -1, text |-> "", details |-> <<>>]

\* Python's order of the tool names as strings (by code point).
NameOrder == <<"filesystem", "math", "rag", "web">>
NameRank(n) == CHOOSE i \in 1..Len(NameOrder) : NameOrder[i] = n

\* [x for x in s if x not in S]
NotIn(s, S) == SelectSeq(s, LAMBDA x : x \notin S)

\* sorted(S) of a set of names: insertion of the least remaining name.
RECURSIVE sorted(_)
sorted(S) ==
    IF S = {} THEN <<>>
    ELSE LET least == CHOOSE x \in S : \A y \in S : NameRank(x) <= NameRank(y)
         IN  <<least>> \o sorted(S \ {least})

\* ', '.join(names) raises TypeError when an item is not a str.
Joinable(names) == NoneName \notin Range(names)

\* --------------------------------- local_metrics: LocalStepEfficiencyMetric

EffNames == {"filesystem", "math", "rag"}

\* trace.get("children", []) if isinstance(trace, dict) else []
trace_children(trace) == IF trace.isdict THEN trace.children ELSE <<>>

\* [child.get("name") for child in children]
tool_sequence(trace) ==
    [i \in 1..Len(trace_children(trace)) |-> trace_children(trace)[i].name]

\* missing = [name for name in expected if name not in tool_sequence]
step_missing(observed, expected) == NotIn(expected, Range(observed))

\* extra = [name for name in tool_sequence if name not in expected]
step_extra(observed, expected) == NotIn(observed, Range(expected))

_score_trace(trace, expected) ==
    LET observed == tool_sequence(trace)
        missing == step_missing(observed, expected)
        extra == step_extra(observed, expected)
        d1 == IF missing # <<>> THEN <<[kind |-> "missing", names |-> missing]>> ELSE <<>>
        d2 == IF extra # <<>> THEN <<[kind |-> "extra", names |-> extra]>> ELSE <<>>
        d3 == IF d1 \o d2 = <<>> /\ observed # expected
              THEN <<[kind |-> "order", names |-> <<>>]>> ELSE <<>>
    IN  IF observed = expected
        THEN ToolSelectionScore(1, "Execution matched expected minimal tool sequence.", <<>>)
        ELSE IF ~Joinable(missing) \/ ~Joinable(extra)
        THEN Raised("TypeError")
        ELSE ToolSelectionScore(0, "Trace deviated from expected sequence", d1 \o d2 \o d3)

\* The traces and expectations the scorer is applied to.
Children == {[i \in 1..Len(s) |-> [name |-> s[i]]] :
                s \in SeqsUpTo(EffNames \cup {NoneName}, MaxChildren)}
Traces == {[isdict |-> TRUE, children |-> c] : c \in Children}
              \cup {[isdict |-> FALSE, children |-> <<>>]}
StepExpectations == SeqsUpTo(EffNames, MaxExpectedSteps)

InitEfficiency ==
    /\ effIn \in [trace : Traces, expected : StepExpectations]
    /\ effOut = NotScored

\* LocalStepEfficiencyMetric._get_score: the trace is scored.
ScoreTrace ==
    /\ effOut = NotScored
    /\ effOut' = _score_trace(effIn.trace, effIn.expected)
    /\ UNCHANGED <<effIn, wfVars, selVars, cliVars, evVars>>

\* -------------------------------- local_metrics: LocalToolCorrectnessMetric

SelNames == {"math", "rag", "web"}

\* An Optional list: None, or a list of ToolCall names.
NoList == [isNone |-> TRUE, list |-> <<>>]
SomeList(s) == [isNone |-> FALSE, list |-> s]

\* Variant: only the empty list is taken for a missing catalogue.
no_catalogue_empty_only(available_tools) ==
    ~available_tools.isNone /\ available_tools.list = <<>>

\* not available_tools: None and the empty list are both falsy.
no_catalogue(available_tools) == available_tools.isNone \/ available_tools.list = <<>>

\* Variant: the unknown names in call order, repeated as often as called.
unknown_tools_as_called(called_names, available_names) ==
    NotIn(called_names, available_names)

\* sorted({name for name in called_names if name not in available_names})
unknown_tools(called_names, available_names) ==
    sorted({called_names[i] : i \in {j \in 1..Len(called_names) :
                                        called_names[j] \notin available_names}})

\* sorted(expected_names - set(called_names))
selection_missing(expected_names, called_names) ==
    sorted(expected_names \ Range(called_names))

\* Variant: a second call of the same tool counts as extra.
selection_extra_counting_repeats(expected_names, called_names) ==
    sorted((Range(called_names) \ expected_names) \cup
           {called_names[i] : i \in {j \in 1..Len(called_names) :
                                        \E k \in 1..(j - 1) : called_names[k] = called_names[j]}})

\* sorted(set(called_names) - expected_names)
selection_extra(expected_names, called_names) ==
    sorted(Range(called_names) \ expected_names)

\* self: should_exact_match, and expected_tools when the attribute is set.
_compute_selection_score(self, tools_called, available_tools) ==
    IF no_catalogue(available_tools)
    THEN ToolSelectionScore(1,
             "No available tools catalogue provided; assuming selection is valid.", <<>>)
    ELSE
    LET available_names == Range(available_tools.list)
        called_names == tools_called
        unknown == unknown_tools(called_names, available_names)
        checked == self.should_exact_match /\ ~self.expected_tools.isNone
        expected_names == Range(self.expected_tools.list)
        missing == selection_missing(expected_names, called_names)
        extra == selection_extra(expected_names, called_names)
        d1 == IF missing # <<>> THEN <<[kind |-> "missing", names |-> missing]>> ELSE <<>>
        d2 == IF extra # <<>> THEN <<[kind |-> "extra", names |-> extra]>> ELSE <<>>
    IN  IF unknown # <<>>
        THEN ToolSelectionScore(0, "Agent invoked unsupported tools",
                 <<[kind |-> "unsupported", names |-> unknown]>>)
        ELSE IF checked /\ (missing # <<>> \/ extra # <<>>)
        THEN ToolSelectionScore(0, "Tool selection mismatch", d1 \o d2)
        ELSE ToolSelectionScore(1, "Tool selection matches expectation.", <<>>)

OptLists(n) == {NoList} \cup {SomeList(s) : s \in SeqsUpTo(SelNames, n)}

InitSelection ==
    /\ selIn \in [self : [should_exact_match : BOOLEAN,
                          expected_tools : OptLists(MaxExpectedTools)],
                  tools_called : SeqsUpTo(SelNames, MaxCalled),
                  available_tools : OptLists(MaxCatalogue)]
    /\ selOut = NotScored

\* LocalToolCorrectnessMetric._get_tool_selection_score
ScoreSelection ==
    /\ selOut = NotScored
    /\ selOut' = _compute_selection_score(selIn.self, selIn.tools_called,
                                           selIn.available_tools)
    /\ UNCHANGED <<selIn, wfVars, effVars, cliVars, evVars>>

\* ------------------------------------------- evaluate_tool_calling: main

\* SCENARIOS: the names of each scenario's expected_tools.
SCENARIOS ==
    <<[name |-> "Math tool selection", expected_tools |-> <<"math">>],
      [name |-> "Directory listing", expected_tools |-> <<"filesystem">>],
      [name |-> "RAG lookup", expected_tools |-> <<"rag">>]>>

\* The names an agent may report for a tool call: tool names, the empty
\* string, and no name at all (the key is missing or null).
AgentNames == {"filesystem", "math", "", NoneName}
AgentOutputs == [toolCalls : SeqsUpTo(AgentNames, MaxToolCalls)]

\* bool(call.get("name")): None and "" are falsy.
truthy_name(n) == n # NoneName /\ n # ""

\* Lines 174-178: the names of tools_called,
\* [build_tool_call(call.get("name", ""), ...) for call in toolCalls if call.get("name")]
tools_called_names(agent_output) == SelectSeq(agent_output.toolCalls, truthy_name)

\* build_trace: one child span per reported call, named call.get("name").
build_trace(agent_output) ==
    [isdict |-> TRUE,
     children |-> [i \in 1..Len(agent_output.toolCalls) |->
                      [name |-> agent_output.toolCalls[i]]]]

\* Line 164: available_tools
available_tools == SomeList(<<"math", "filesystem", "rag">>)

NoTrace == [isdict |-> FALSE, children |-> <<>>]

EvalStart ==
    [pc |-> "start", scenario |-> 0, agent_output |-> [toolCalls |-> <<>>],
     tools_called |-> <<>>, trace |-> NoTrace,
     selection |-> NotScored, efficiency |-> NotScored]

\* The script is not running.
IdleEval == ev = [EvalStart EXCEPT !.pc = "idle"]

InitEval == ev = EvalStart

\* Lines 167-172: a scenario of the loop and the agent's parsed output.
RunAgenticQuery ==
    /\ ev.pc = "start"
    /\ \E k \in 1..Len(SCENARIOS) : \E out \in AgentOutputs :
          ev' = [ev EXCEPT !.pc = "queried", !.scenario = k, !.agent_output = out]
    /\ UNCHANGED <<wfVars, effVars, selVars, cliVars>>

\* Lines 174-190: tools_called, expected_tools and the test case.
BuildToolsCalled ==
    /\ ev.pc = "queried"
    /\ ev' = [ev EXCEPT !.pc = "case", !.tools_called = tools_called_names(ev.agent_output)]
    /\ UNCHANGED <<wfVars, effVars, selVars, cliVars>>

\* Line 192: test_case._trace_dict = build_trace(...)
BuildTrace ==
    /\ ev.pc = "case"
    /\ ev' = [ev EXCEPT !.pc = "traced", !.trace = build_trace(ev.agent_output)]
    /\ UNCHANGED <<wfVars, effVars, selVars, cliVars>>

\* Lines 194-200: the tool-selection metric, in exact-match mode, on tools_called.
MeasureSelection ==
    /\ ev.pc = "traced"
    /\ ev' = [ev EXCEPT
          !.pc = "selected",
          !.selection = _compute_selection_score(
              [should_exact_match |-> TRUE,
               expected_tools |-> SomeList(SCENARIOS[ev.scenario].expected_tools)],
              ev.tools_called, available_tools)]
    /\ UNCHANGED <<wfVars, effVars, selVars, cliVars>>

\* Lines 202-208: the step-efficiency metric on the trace.  An exception of
\* the scorer is not handled and ends the script.
MeasureEfficiency ==
    /\ ev.pc = "selected"
    /\ LET score == _score_trace(ev.trace, SCENARIOS[ev.scenario].expected_tools)
       IN  ev' = [ev EXCEPT
              !.pc = IF score.outcome = "raised" THEN "crashed" ELSE "scored",
              !.efficiency = score]
    /\ UNCHANGED <<wfVars, effVars, selVars, cliVars>>

\* ------------------------------------------------------------ specifications

\* The scorers at rest, while the workflow runs.
IdleEfficiency ==
    /\ effIn = [trace |-> [isdict |-> FALSE, children |-> <<>>], expected |-> <<>>]
    /\ effOut = NotScored

IdleSelection ==
    /\ selIn = [self |-> [should_exact_match |-> FALSE, expected_tools |-> NoList],
                tools_called |-> <<>>,
                available_tools |-> NoList]
    /\ selOut = NotScored

\* One step of thread t inside run_langraph_pipeline.
Step(t) ==
    \/ Call(t)
    \/ CheckGraph(t)
    \/ BuildGraph(t)
    \/ StoreGraph(t)
    \/ StartInvoke(t)
    \/ RunStage(t)
    \/ Return(t)

\* The workflow called from one thread, run after run.
Init == InitWorkflow /\ IdleEfficiency /\ IdleSelection /\ IdleCli /\ IdleEval

Next == Step(MainThread)

Spec == Init /\ [][Next]_vars

\* The workflow called from several threads of one process.
NextThreads == \E t \in Threads : Step(t)

SpecThreads == Init /\ [][NextThreads]_vars

\* The step-efficiency scorer applied to every trace and expectation.
InitEff == InitWorkflow /\ InitEfficiency /\ IdleSelection /\ IdleCli /\ IdleEval

NextEff == ScoreTrace

SpecEfficiency == InitEff /\ [][NextEff]_vars

\* The tool-selection scorer applied to every input.
InitSel == InitWorkflow /\ IdleEfficiency /\ InitSelection /\ IdleCli /\ IdleEval

NextSel == ScoreSelection

SpecSelection == InitSel /\ [][NextSel]_vars

\* The orchestrator run as a script: main() reads one request and ends.
InitMain == InitWorkflow /\ IdleEfficiency /\ IdleSelection /\ InitCli /\ IdleEval

NextMain ==
    \/ MainRead
    \/ MainCall
    \/ CheckGraph(MainThread)
    \/ BuildGraph(MainThread)
    \/ StoreGraph(MainThread)
    \/ StartInvoke(MainThread)
    \/ RunStage(MainThread)
    \/ StageRaises(MainThread)
    \/ Return(MainThread)
    \/ MainPrint
    \/ MainExcept

SpecMain == InitMain /\ [][NextMain]_vars

\* The evaluation script on one scenario and one agent output.
InitEvaluate == InitWorkflow /\ IdleEfficiency /\ IdleSelection /\ IdleCli /\ InitEval

NextEvaluate ==
    \/ RunAgenticQuery
    \/ BuildToolsCalled
    \/ BuildTrace
    \/ MeasureSelection
    \/ MeasureEfficiency

SpecEvaluate == InitEvaluate /\ [][NextEvaluate]_vars

\* =================================================================== claims

\* The names of the direct children of the scored trace, in order.
ObservedNames ==
    [i \in 1..Len(effIn.trace.children) |-> effIn.trace.children[i].name]

EffScored == effOut # NotScored
SelScored == selOut # NotScored

\* C1: for every expected sequence and every observed trace, _score_trace
\* returns score 1.0 if and only if the names of the trace's direct children
\* are exactly the expected sequence, and returns score 0.0 for every other
\* observed sequence.
C1_ScoreOneIffExactSequence ==
    EffScored =>
        /\ effOut.outcome = "returned"
        /\ (effOut.score = 1) <=> (ObservedNames = effIn.expected)
        /\ (ObservedNames # effIn.expected) => effOut.score = 0

\* The names called that the catalogue does not hold.
UnknownCalled ==
    Range(selIn.tools_called) \ Range(selIn.available_tools.list)

\* s lists the names of S, each once, in Python's string order.
ListsSorted(s, S) ==
    /\ Range(s) = S
    /\ Len(s) = Cardinality(S)
    /\ \A i \in 1..Len(s) : \A j \in 1..Len(s) :
          i < j => NameRank(s[i]) < NameRank(s[j])

\* C2: with a non-empty catalogue and a called name the catalogue does not
\* hold, _compute_selection_score returns score 0.0 and a reason that lists
\* exactly the unknown names, sorted and each once, and nothing else, in
\* either matching mode and whatever the expected tools are.
C2_UnknownToolsRejected ==
    (/\ SelScored
     /\ ~selIn.available_tools.isNone
     /\ selIn.available_tools.list # <<>>
     /\ UnknownCalled # {}) =>
        /\ selOut.outcome = "returned"
        /\ selOut.score = 0
        /\ selOut.text = "Agent invoked unsupported tools"
        /\ Len(selOut.details) = 1
        /\ selOut.details[1].kind = "unsupported"
        /\ ListsSorted(selOut.details[1].names, UnknownCalled)

\* Two unknown names called out of order, one of them twice, in exact-match
\* mode with expected tools that differ from the calls as well.
C2_Witness ==
    /\ SelScored
    /\ selIn.available_tools = SomeList(<<"math">>)
    /\ selIn.tools_called = <<"web", "rag", "web">>
    /\ selIn.self.should_exact_match
    /\ selIn.self.expected_tools = SomeList(<<"math">>)
    /\ selOut.score = 0
    /\ selOut.details = <<[kind |-> "unsupported", names |-> <<"rag", "web">>]>>

\* Exact-match mode with the called names, as a set, equal to the expected ones.
ExactSetEqual ==
    /\ SelScored
    /\ selIn.self.should_exact_match
    /\ ~selIn.self.expected_tools.isNone
    /\ Range(selIn.tools_called) = Range(selIn.self.expected_tools.list)

\* C3 as stated: for all catalogues, in exact-match mode, called names equal
\* as a set to the expected names always score 1.0.
C3_SetEqualScoresOne ==
    ExactSetEqual => selOut.outcome = "returned" /\ selOut.score = 1

\* C3 amended: in exact-match mode, called names equal as a set to the
\* expected names score 1.0, whatever the order and the repetitions of the
\* calls, when no catalogue is supplied (None or empty) or every called name
\* is in the catalogue.
C3_SetEqualKnownScoresOne ==
    (ExactSetEqual /\ (no_catalogue(selIn.available_tools) \/ UnknownCalled = {})) =>
        selOut.outcome = "returned" /\ selOut.score = 1

\* Calls in another order than expected, one tool called twice, all known.
C3_Witness ==
    /\ ExactSetEqual
    /\ selIn.available_tools = SomeList(<<"math", "rag">>)
    /\ selIn.self.expected_tools = SomeList(<<"math", "rag">>)
    /\ selIn.tools_called = <<"rag", "math", "rag">>
    /\ selOut.score = 1

\* C4: for expected [filesystem] and observed [filesystem, filesystem] the
\* score is 0.0 and the reason reports filesystem as an extra tool, not an
\* order mismatch.
C4_RepeatReportedAsExtra ==
    (/\ EffScored
     /\ effIn.trace.isdict
     /\ effIn.expected = <<"filesystem">>
     /\ ObservedNames = <<"filesystem", "filesystem">>) =>
        /\ effOut.outcome = "returned"
        /\ effOut.score = 0
        /\ \E i \in 1..Len(effOut.details) :
              /\ effOut.details[i].kind = "extra"
              /\ "filesystem" \in Range(effOut.details[i].names)
        /\ \A i \in 1..Len(effOut.details) : effOut.details[i].kind # "order"

\* C5: when the catalogue of available tools is None, the score is 1.0 for
\* every tools_called list, also in exact-match mode with called names that
\* differ from the expected ones.
C5_NoCatalogueScoresOne ==
    (SelScored /\ selIn.available_tools.isNone) =>
        /\ selOut.outcome = "returned"
        /\ selOut.score = 1
        /\ selOut.text = "No available tools catalogue provided; assuming selection is valid."

\* No catalogue, exact-match mode, and a call that is not among the expected.
C5_Witness ==
    /\ SelScored
    /\ selIn.available_tools.isNone
    /\ selIn.self.should_exact_match
    /\ selIn.self.expected_tools = SomeList(<<"math">>)
    /\ selIn.tools_called = <<"web", "rag">>
    /\ selOut.score = 1

\* The order of the stages the workflow is said to follow.
StageOrder ==
    <<"dataset", "metadata", "verify_raw", "verify_metadata", "summary",
      "rag_query", "rag_capture", "rag_verify", "report", "final">>

\* What the stage registered under node n plans and describes.
StageEntries(n) == CallStage(graph_nodes[n], NoState)
PlanInStageOrder ==
    [i \in 1..Len(StageOrder) |-> StageEntries(StageOrder[i]).tools_planned[1]]
ArtifactsInStageOrder ==
    [i \in 1..Len(StageOrder) |-> StageEntries(StageOrder[i]).artifacts[1]]

InRun(t) == threads[t].pc \in {"running", "collect"}

\* C6: in every run the stages execute once each, strictly in the order
\* dataset, metadata, verify_raw, verify_metadata, summary, rag_query,
\* rag_capture, rag_verify, report, final; the run ends after final, and the
\* returned plan and artifacts list the stages' entries in that order.
C6_StagesInOrder ==
    /\ \A t \in Threads :
          /\ IsPrefix(threads[t].executed, StageOrder)
          /\ threads[t].pc = "running" =>
                /\ threads[t].executed # StageOrder
                /\ threads[t].active = {StageOrder[Len(threads[t].executed) + 1]}
          /\ threads[t].pc = "collect" =>
                /\ threads[t].executed = StageOrder
                /\ threads[t].state.tools_planned = PlanInStageOrder
                /\ threads[t].state.artifacts = ArtifactsInStageOrder
    /\ \A r \in results :
          /\ r.payload.plan = PlanInStageOrder
          /\ r.payload.artifacts = ArtifactsInStageOrder

\* A run has executed all ten stages after an earlier run returned its plan.
C6_Witness ==
    /\ threads[MainThread].pc = "collect"
    /\ threads[MainThread].executed = StageOrder
    /\ Len(threads[MainThread].state.tools_planned) = 10
    /\ \E r \in results : Len(r.payload.plan) = 10

\* C7: at every stage boundary of a run, step equals the number of stages
\* executed so far, len(tools_planned) and len(artifacts); after a full run
\* step is 10 and the plan and the artifacts have 10 entries each.
C7_StepCountsStages ==
    /\ \A t \in Threads :
          InRun(t) =>
             /\ threads[t].state.step = Len(threads[t].executed)
             /\ threads[t].state.step = Len(threads[t].state.tools_planned)
             /\ threads[t].state.step = Len(threads[t].state.artifacts)
             /\ threads[t].pc = "collect" => threads[t].state.step = 10
    /\ \A r \in results :
          Len(r.payload.plan) = 10 /\ Len(r.payload.artifacts) = 10

\* A boundary in the middle of a run, after the rag_query stage.
C7_Witness ==
    /\ threads[MainThread].pc = "running"
    /\ Len(threads[MainThread].executed) = 6
    /\ threads[MainThread].executed[6] = "rag_query"
    /\ threads[MainThread].state.step = 6
    /\ Len(threads[MainThread].state.tools_planned) = 6

\* C8: every stage leaves prompt and context unchanged and leaves the
\* entries already in artifacts and tools_planned unchanged and in place:
\* the lists before a stage are prefixes of the lists after it.
C8_AppendOnly ==
    [][\A t \in Threads :
          threads[t].pc = "running" =>
             /\ threads'[t].state.prompt = threads[t].state.prompt
             /\ threads'[t].state.context = threads[t].state.context
             /\ IsPrefix(threads[t].state.artifacts, threads'[t].state.artifacts)
             /\ IsPrefix(threads[t].state.tools_planned,
                         threads'[t].state.tools_planned)]_vars

\* A stage has run on a state that already held entries, a prompt and a
\* context.
C8_Witness ==
    /\ threads[MainThread].pc = "running"
    /\ Len(threads[MainThread].state.tools_planned) = 3
    /\ Len(threads[MainThread].state.artifacts) = 3
    /\ threads[MainThread].state.prompt = "prompt B"
    /\ threads[MainThread].state.context.dict # {}

\* C9: two invocations with identical (prompt, context) return identical
\* artifacts and plan, whatever ran before them: each starts from a fresh
\* PipelineState, with empty artifacts, empty tools_planned and step 0.
C9_SameInputsSameOutput ==
    /\ \A r1 \in results : \A r2 \in results :
          (r1.prompt = r2.prompt /\ r1.context = r2.context) => r1.payload = r2.payload
    /\ \A t \in Threads :
          threads[t].pc = "collect" =>
             \A r \in results :
                (r.prompt = threads[t].prompt /\ r.context = threads[t].context) =>
                    /\ r.payload.artifacts = threads[t].state.artifacts
                    /\ r.payload.plan = threads[t].state.tools_planned
    /\ \A t \in Threads :
          (threads[t].pc = "running" /\ threads[t].executed = <<>>) =>
             /\ threads[t].state.artifacts = <<>>
             /\ threads[t].state.tools_planned = <<>>
             /\ threads[t].state.step = 0

\* A third invocation, with the arguments of an earlier one and after a run
\* with other arguments, is about to return what the earlier one returned.
C9_Witness ==
    /\ threads[MainThread].pc = "collect"
    /\ Cardinality(results) = 2
    /\ \E r \in results :
          /\ r.prompt = threads[MainThread].prompt
          /\ r.context = threads[MainThread].context
          /\ r.payload.plan = threads[MainThread].state.tools_planned
          /\ r.payload.artifacts = threads[MainThread].state.artifacts

\* C10: across any number of invocations, including concurrent ones that
\* interleave at their first use, _build_graph is executed at most once and
\* all invocations run on that one compiled graph.
C10_GraphBuiltOnce ==
    /\ buildCount <= 1
    /\ \A t \in Threads : \A u \in Threads :
          (InRun(t) /\ InRun(u)) => threads[t].graph.id = threads[u].graph.id

\* C11: if a stage raises during a run, the run fails with a single terminal
\* error and no partial result: run_langraph_pipeline returns no payload,
\* and main writes nothing to standard output, writes one {error} object to
\* standard error and exits with a non-zero status.
C11_StageFailureIsTerminal ==
    pending[MainThread].origin = "stage" =>
        /\ results = {}
        /\ cli.stdout = <<>>
        /\ threads[MainThread].pc \in {"raised", "idle"}
        /\ cli.pc \in {"called", "exited"}
        /\ cli.pc = "called" => cli.stderr = <<>>
        /\ cli.pc = "exited" =>
              /\ cli.stderr = <<json_dumps([error |-> pending[MainThread].msg])>>
              /\ cli.status # 0

\* The summary stage raised after four stages had planned their calls, and
\* main has ended.
C11_Witness ==
    /\ pending[MainThread].origin = "stage"
    /\ pending[MainThread].stage = "summary"
    /\ cli.pc = "exited"
    /\ cli.status = 1
    /\ Len(cli.stderr) = 1
    /\ cli.stdout = <<>>

\* The calls of the agent's output that carry a name, in reported order.
NamedCalls == SelectSeq(ev.agent_output.toolCalls, LAMBDA n : n \notin {"", NoneName})

\* C12: for every agent output, a tool invocation with a missing or empty
\* name is left out of what the scorers evaluate: the names of tools_called
\* and the child names of the trace are the same sequence of non-empty
\* names, in the order the agent reported them.
C12_NamelessCallsExcluded ==
    ev.pc \in {"traced", "selected", "scored", "crashed"} =>
        /\ ev.tools_called = NamedCalls
        /\ tool_sequence(ev.trace) = NamedCalls
        /\ tool_sequence(ev.trace) = ev.tools_called

====
